---------------------------- MODULE Spec2Model ----------------------------
(***************************************************************************)
(* The NFCS 2012 pipeline: clean_data.py (the Recoder) reads the raw       *)
(* survey export, recodes numeric answer codes into labels, prunes empty   *)
(* columns, renames columns and writes cleaned_NFCS_2012.csv; analysis.py  *)
(* (the Aggregator) reads that file, scores the five literacy questions,   *)
(* buckets ages, summarises by group and renders the charts.               *)
(*                                                                         *)
(* Both scripts are straight-line programs, so each is modelled as a       *)
(* sequence of steps guarded by the program counter pc.  A data frame is a *)
(* function from column names to columns; a column is a sequence of cells. *)
(***************************************************************************)
EXTENDS Integers, Sequences, FiniteSets, TLC

VARIABLES
    pc,        \* position of the two scripts
    run,       \* which execution of clean_data.py is in progress (1 or 2)
    srcCsv,    \* text of the file clean_data.py reads (column |-> fields)
    df,        \* clean_data.py's data frame
    mapped,    \* clean_data.py's frame right after section 5 (Apply mappings)
    outCsv,    \* text of cleaned_NFCS_2012.csv
    firstCsv,  \* text the first execution of clean_data.py wrote
    adf,       \* analysis.py's data frame
    tables,    \* analysis.py's summary tables (name |-> table)
    emitted    \* files saved, diagnostics and tracebacks printed by analysis.py

vars == <<pc, run, srcCsv, df, mapped, outCsv, firstCsv, adf, tables, emitted>>

-----------------------------------------------------------------------------
(* Bounds of the model.                                                    *)

MaxRows == 2

-----------------------------------------------------------------------------
(* Cells.  pandas holds a cell as an int64, a float64, a bool, a str or    *)
(* NaN.  A float keeps twice its value in n, so that halves are exact.     *)

IntCell(k)  == [t |-> "int",  n |-> k, s |-> ""]
FltCell(m)  == [t |-> "flt",  n |-> m, s |-> ""]
StrCell(x)  == [t |-> "str",  n |-> 0, s |-> x]
BoolCell(b) == [t |-> "bool", n |-> IF b THEN 1 ELSE 0, s |-> ""]
NaN     == [t |-> "nan",  n |-> 0, s |-> ""]

IsNum(c) == c.t \in {"int", "flt"}
Twice(c) == IF c.t = "int" THEN 2 * c.n ELSE c.n

-----------------------------------------------------------------------------
(* Text of numbers.  TLC cannot take a string apart, so parsing is the     *)
(* inverse of formatting over the numbers that occur in the model's files. *)

NumVals ==
    {-99, -98} \cup (0..14) \cup {17, 18, 24, 25, 30, 34, 35, 44, 45, 54, 55,
     64, 65, 70, 97, 98, 99, 120, 121, 999} \cup (2000..2012)

HalfVals == {35}   \* 17.5, kept as twice its value

IntText(k) == ToString(k)

FltText(m) ==
    IF m % 2 = 0 THEN ToString(m \div 2) \o ".0"
                 ELSE ToString(m \div 2) \o ".5"

IntTable == [s \in {IntText(k) : k \in NumVals} |->
                CHOOSE k \in NumVals : IntText(k) = s]

FltVals == {2 * k : k \in NumVals} \cup HalfVals

FltTable == [s \in {FltText(m) : m \in FltVals} |->
                CHOOSE m \in FltVals : FltText(m) = s]

NaTexts   == {"", "NA", "N/A", "NaN", "nan", "null", "NULL", "n/a", "#N/A"}
TrueTexts == {"True", "TRUE", "true"}
BoolTexts == TrueTexts \cup {"False", "FALSE", "false"}

\* pd.read_csv's inference of one column's dtype from its fields
ReadCsvColumn(fields) ==
    LET rows  == DOMAIN fields
        na(i) == fields[i] \in NaTexts
        some  == {i \in rows : ~na(i)}
    IN  IF \A i \in some : fields[i] \in DOMAIN IntTable
        THEN IF some = rows
             THEN [i \in rows |-> IntCell(IntTable[fields[i]])]
             ELSE [i \in rows |-> IF na(i) THEN NaN
                                  ELSE FltCell(2 * IntTable[fields[i]])]
        ELSE IF \A i \in some : fields[i] \in DOMAIN IntTable
                                   \/ fields[i] \in DOMAIN FltTable
        THEN [i \in rows |->
                 IF na(i) THEN NaN
                 ELSE IF fields[i] \in DOMAIN IntTable
                      THEN FltCell(2 * IntTable[fields[i]])
                      ELSE FltCell(FltTable[fields[i]])]
        ELSE IF \A i \in some : fields[i] \in BoolTexts
        THEN [i \in rows |-> IF na(i) THEN NaN
                             ELSE BoolCell(fields[i] \in TrueTexts)]
        ELSE [i \in rows |-> IF na(i) THEN NaN ELSE StrCell(fields[i])]

read_csv(file) == [c \in DOMAIN file |-> ReadCsvColumn(file[c])]

\* DataFrame.to_csv's text of one cell
CsvText(c) ==
    CASE c.t = "int"  -> IntText(c.n)
      [] c.t = "flt"  -> FltText(c.n)
      [] c.t = "str"  -> c.s
      [] c.t = "bool" -> IF c.n = 1 THEN "True" ELSE "False"
      [] c.t = "nan"  -> ""

to_csv(frame) ==
    [c \in DOMAIN frame |-> [i \in DOMAIN frame[c] |-> CsvText(frame[c][i])]]

NoFrame == [c \in {} |-> <<>>]

\* DataFrame.rename(columns = {k: v for k in table if k in df.columns})
\* (ren is the new name of every column of the frame)
Rename(frame, ren) ==
    [d \in {ren[c] : c \in DOMAIN frame} |->
        frame[CHOOSE c \in DOMAIN frame : ren[c] = d]]

-----------------------------------------------------------------------------
(* clean_data.py, section 1: read and normalise.                           *)

\* the whitespace-only strings of the model's files (regex ^\s*$)
BlankTexts == {"", " ", "  "}

BlankToNaN(c) == IF c.t = "str" /\ c.s \in BlankTexts THEN NaN ELSE c

\* str.strip() and removal of inner whitespace, on the model's column names
NormalizeName(c) ==
    CASE c = " G23 " -> "G23"
      [] c = "M 4"   -> "M4"
      [] OTHER       -> c

pre_rename(c) ==
    CASE c = "A5_2012"  -> "A5"
      [] c = "C1_2012"  -> "C1"
      [] c = "C2_2012"  -> "C2"
      [] c = "C3_2012"  -> "C3"
      [] c = "C4_2012"  -> "C4"
      [] c = "C5_2012"  -> "C5"
      [] c = "C10_2012" -> "C10"
      [] c = "C11_2012" -> "C11"
      [] c = "E5_2012"  -> "E5"
      [] c = "EA_1"     -> "Ea_1"
      [] c = "EA_2A"    -> "Ea_2a"
      [] c = "E4A"      -> "E4a"
      [] OTHER          -> c

\* lines 14-29: blanks to NaN, then the two renamings of the columns
Normalized(frame) ==
    LET blanked == [c \in DOMAIN frame |->
                       [i \in DOMAIN frame[c] |-> BlankToNaN(frame[c][i])]]
        stripped == Rename(blanked,
                           [c \in DOMAIN blanked |-> NormalizeName(c)])
    IN  Rename(stripped, [c \in DOMAIN stripped |-> pre_rename(c)])

-----------------------------------------------------------------------------
(* clean_data.py, section 2: the code maps.  (The source writes the income *)
(* and credit-card ranges with an en dash; the model writes "-".)          *)

DK_REF == (98 :> "Don't know") @@ (99 :> "Prefer not to say")
YES_NO == (1 :> "Yes") @@ (2 :> "No") @@ DK_REF

FREQ_1_3 == (1 :> "Frequently") @@ (2 :> "Sometimes") @@ (3 :> "Never") @@ DK_REF
AGREE_1_7 ==
    (1 :> "Strongly disagree") @@ (2 :> "") @@ (3 :> "") @@ (4 :> "Neither")
    @@ (5 :> "") @@ (6 :> "") @@ (7 :> "Strongly agree") @@ DK_REF
SCALE_1_7_KNOW ==
    (1 :> "Very low") @@ (2 :> "") @@ (3 :> "") @@ (4 :> "") @@ (5 :> "")
    @@ (6 :> "") @@ (7 :> "Very high") @@ DK_REF
SCALE_1_10 == [i \in 1..10 |-> ToString(i)] @@ DK_REF
TRUE_FALSE == (1 :> "True") @@ (2 :> "False") @@ DK_REF

A3_gender == (1 :> "Male") @@ (2 :> "Female")
A5_edu ==
    (1 :> "Did not complete high school") @@ (2 :> "High school diploma")
    @@ (3 :> "GED/alternative credential") @@ (4 :> "Some college")
    @@ (5 :> "College graduate") @@ (6 :> "Post graduate")
    @@ (99 :> "Prefer not to say")
A6_marital ==
    (1 :> "Married") @@ (2 :> "Single") @@ (3 :> "Separated")
    @@ (4 :> "Divorced") @@ (5 :> "Widowed") @@ (99 :> "Prefer not to say")
A7_living ==
    (1 :> "Only adult in household") @@ (2 :> "Live with spouse/partner")
    @@ (3 :> "Live in parents' home")
    @@ (4 :> "Live with other family/friends/roommates")
    @@ (99 :> "Prefer not to say")
A11_children ==
    (1 :> "1") @@ (2 :> "2") @@ (3 :> "3") @@ (4 :> "4 or more")
    @@ (5 :> "No financially dependent children") @@ (6 :> "No children")
    @@ (99 :> "Prefer not to say")
A8_income ==
    (1 :> "< $15,000") @@ (2 :> "$15k-$24,999") @@ (3 :> "$25k-$34,999")
    @@ (4 :> "$35k-$49,999") @@ (5 :> "$50k-$74,999") @@ (6 :> "$75k-$99,999")
    @@ (7 :> "$100k-$149,999") @@ (8 :> "$150k+") @@ DK_REF
AM21_22_service ==
    (1 :> "Currently member") @@ (2 :> "Previously member")
    @@ (3 :> "Never member") @@ (99 :> "Prefer not to say")
A9_work ==
    (1 :> "Self-employed") @@ (2 :> "Employed full-time")
    @@ (3 :> "Employed part-time") @@ (4 :> "Homemaker")
    @@ (5 :> "Full-time student") @@ (6 :> "Unable to work")
    @@ (7 :> "Unemployed/laid off") @@ (8 :> "Retired")
    @@ (99 :> "Prefer not to say")
E4a_buy_year ==
    (1 :> "1999 or earlier") @@ [i \in 2..14 |-> ToString(1998 + i)]
    @@ (97 :> "Did not purchase") @@ DK_REF
F1_cc_num ==
    (1 :> "1") @@ (2 :> "2-3") @@ (3 :> "4-8") @@ (4 :> "9-12")
    @@ (5 :> "13-20") @@ (6 :> ">20") @@ (7 :> "No credit cards") @@ DK_REF
G25_freq ==
    (1 :> "Never") @@ (2 :> "1 time") @@ (3 :> "2 times") @@ (4 :> "3 times")
    @@ (5 :> "4+ times") @@ DK_REF

M6_map ==
    (1 :> "More than $102") @@ (2 :> "Exactly $102") @@ (3 :> "Less than $102")
    @@ DK_REF
M7_map ==
    (1 :> "More than today") @@ (2 :> "Exactly the same")
    @@ (3 :> "Less than today") @@ DK_REF
M8_map ==
    (1 :> "Rise") @@ (2 :> "Fall") @@ (3 :> "Same") @@ (4 :> "No relationship")
    @@ DK_REF

-----------------------------------------------------------------------------
(* clean_data.py, section 3: the registry.                                 *)

COLUMN_MAPS ==
    ("A3" :> A3_gender) @@ ("A5" :> A5_edu) @@ ("A6" :> A6_marital)
    @@ ("A7" :> A7_living) @@ ("A11" :> A11_children) @@ ("A8" :> A8_income)
    @@ ("AM21" :> AM21_22_service) @@ ("AM22" :> AM21_22_service)
    @@ ("A9" :> A9_work) @@ ("E4a" :> E4a_buy_year) @@ ("F1" :> F1_cc_num)
    @@ ("M6" :> M6_map) @@ ("M7" :> M7_map) @@ ("M8" :> M8_map)
    @@ ("M9" :> TRUE_FALSE) @@ ("M10" :> TRUE_FALSE) @@ ("G23" :> AGREE_1_7)
    @@ ("J1" :> SCALE_1_10) @@ ("J2" :> SCALE_1_10) @@ ("M4" :> SCALE_1_7_KNOW)

PREFIX_MAPS ==
    << <<"B20_", YES_NO>>, <<"B22_", FREQ_1_3>>, <<"K_", YES_NO>>,
       <<"D20_", YES_NO>>, <<"F2_", YES_NO>>, <<"G25_", G25_freq>>,
       <<"M21_", YES_NO>>, <<"M1_", AGREE_1_7>> >>

\* c.startswith(prefix), on the model's column names
StartsWith(c, prefix) ==
    <<c, prefix>> \in
        { <<"B20_1", "B20_">>, <<"B22_1", "B22_">>, <<"K_1", "K_">>,
          <<"D20_1", "D20_">>, <<"F2_1", "F2_">>, <<"G25_1", "G25_">>,
          <<"M21_1", "M21_">>, <<"M1_1", "M1_">> }


-----------------------------------------------------------------------------
(* clean_data.py, section 4: the safe lookup.                              *)

\* a lookup in m itself, which has no string keys
HasEntryNumbersOnly(m, c) == IsNum(c) /\ \E k \in DOMAIN m : Twice(c) = 2 * k

\* whether dict `mixed` = {**m, **{str(k): v}} has the cell as a key: a
\* number equal to an integer key, or the decimal text of an integer key
\* (no bool column reaches a governed column of the model's files)
HasEntry(m, c) ==
    \/ IsNum(c) /\ \E k \in DOMAIN m : Twice(c) = 2 * k
    \/ c.t = "str" /\ \E k \in DOMAIN m : IntText(k) = c.s

EntryKey(m, c) ==
    IF IsNum(c) THEN CHOOSE k \in DOMAIN m : Twice(c) = 2 * k
                ELSE CHOOSE k \in DOMAIN m : IntText(k) = c.s

\* Series.map(mixed): the entry's label, NaN where the dict has no entry
MapCell(m, c) == IF HasEntry(m, c) THEN StrCell(m[EntryKey(m, c)]) ELSE NaN

\* Series.fillna(other): only NaN is filled
Fillna(a, b) == IF a.t = "nan" THEN b ELSE a

\* the lookup without the fillna
apply_map_no_fill(s, m) == [i \in DOMAIN s |-> MapCell(m, s[i])]

apply_map_safe(s, m) == [i \in DOMAIN s |-> Fillna(MapCell(m, s[i]), s[i])]

-----------------------------------------------------------------------------
(* clean_data.py, section 5: apply the mappings.                           *)

ColumnMapsApplied(frame) ==
    [c \in DOMAIN frame |->
        IF c \in DOMAIN COLUMN_MAPS THEN apply_map_safe(frame[c], COLUMN_MAPS[c])
                                    ELSE frame[c]]

OnePrefixApplied(frame, k) ==
    [c \in DOMAIN frame |->
        IF StartsWith(c, PREFIX_MAPS[k][1])
        THEN apply_map_safe(frame[c], PREFIX_MAPS[k][2])
        ELSE frame[c]]

RECURSIVE PrefixMapsFrom(_, _)
PrefixMapsFrom(frame, k) ==
    IF k > Len(PREFIX_MAPS) THEN frame
    ELSE PrefixMapsFrom(OnePrefixApplied(frame, k), k + 1)

PrefixMapsApplied(frame) == PrefixMapsFrom(frame, 1)

\* Series.replace({num: label}).replace({str(num): label})
ReplaceCode(c, code, label) ==
    IF \/ IsNum(c) /\ Twice(c) = 2 * code
       \/ c.t = "str" /\ c.s = IntText(code)
    THEN StrCell(label) ELSE c

E5Replaced(col) ==
    [i \in DOMAIN col |->
        ReplaceCode(ReplaceCode(col[i], -98, "Don't know"),
                    -99, "Prefer not to say")]

A3aReplaced(col) ==
    [i \in DOMAIN col |-> ReplaceCode(col[i], 999, "Prefer not to say")]

SpecialCasesApplied(frame) ==
    [c \in DOMAIN frame |->
        CASE c = "E5"  -> E5Replaced(frame[c])
          [] c = "A3a" -> A3aReplaced(frame[c])
          [] OTHER     -> frame[c]]

-----------------------------------------------------------------------------
(* clean_data.py, sections 6 and 6.5: cleanup and friendly names.          *)

AllNaN(col) == \A i \in DOMAIN col : col[i].t = "nan"

\* DataFrame.dropna(axis=1, how="all")
dropna_columns(frame) ==
    [c \in {d \in DOMAIN frame : ~AllNaN(frame[d])} |-> frame[c]]

friendly_names(c) ==
    CASE c = "NFCSID"    -> "Respondent_ID"
      [] c = "STATEQ"    -> "State"
      [] c = "CENSUSDIV" -> "Census_Division"
      [] c = "CENSUSREG" -> "Census_Region"
      [] c = "A3"        -> "Gender"
      [] c = "A3a"       -> "Age"
      [] c = "A3Ar_w"    -> "Age_Category_Code"
      [] c = "A5"        -> "Education"
      [] c = "A6"        -> "Marital_Status"
      [] c = "A7"        -> "Living_Arrangement"
      [] c = "A8"        -> "Household_Income"
      [] c = "AM21"      -> "Military_Service_Self"
      [] c = "AM22"      -> "Military_Service_HH"
      [] c = "A9"        -> "Employment_Status"
      [] c = "wgt_n2"    -> "Weight_N"
      [] c = "wgt_d2"    -> "Weight_D"
      [] c = "wgt_s3"    -> "Weight_S"
      [] c = "M6"        -> "Q_Interest"
      [] c = "M7"        -> "Q_Inflation"
      [] c = "M8"        -> "Q_Bonds"
      [] c = "M9"        -> "Q_Risk"
      [] c = "M10"       -> "Q_Mortgage"
      [] OTHER           -> c

-----------------------------------------------------------------------------
(* analysis.py, section 2: the literacy score.                             *)

LITERACY_COLS == <<"Q_Interest", "Q_Inflation", "Q_Bonds", "Q_Risk", "Q_Mortgage">>

correct_answers ==
    ("Q_Interest" :> "More than $102") @@ ("Q_Inflation" :> "More than today")
    @@ ("Q_Bonds" :> "Fall") @@ ("Q_Risk" :> "True") @@ ("Q_Mortgage" :> "False")

\* the comparison made on the cells' text instead of on the cells
AnswerScoreByText(col, c) == IF CsvText(c) = correct_answers[col] THEN 1 ELSE 0

\* (df[col] == correct_answers[col]).astype(int), one cell
AnswerScore(col, c) == IF c = StrCell(correct_answers[col]) THEN 1 ELSE 0

RECURSIVE SumScores(_, _)
SumScores(row, k) ==
    IF k = 0 THEN 0
    ELSE AnswerScore(LITERACY_COLS[k], row[LITERACY_COLS[k]]) + SumScores(row, k - 1)

RowOf(frame, i) == [c \in DOMAIN frame |-> frame[c][i]]

RowsOf(frame) == DOMAIN frame[CHOOSE c \in DOMAIN frame : TRUE]

literacy_score(frame, i) == SumScores(RowOf(frame, i), Len(LITERACY_COLS))

Scored(frame) ==
    LET rows == RowsOf(frame)
        name(k) == LITERACY_COLS[k] \o "_score"
        scoreCols ==
            [c \in {name(k) : k \in DOMAIN LITERACY_COLS} |->
                LET q == CHOOSE k \in DOMAIN LITERACY_COLS : name(k) = c
                IN  [i \in rows |->
                        IntCell(AnswerScore(LITERACY_COLS[q],
                                            frame[LITERACY_COLS[q]][i]))]]
    IN  ("literacy_score" :> [i \in rows |-> IntCell(literacy_score(frame, i))])
        @@ scoreCols @@ frame

-----------------------------------------------------------------------------
(* analysis.py, section 3: age groups.                                     *)

\* pd.to_numeric(errors="coerce"), one cell
to_numeric(c) ==
    CASE IsNum(c)     -> c
      [] c.t = "bool" -> IntCell(c.n)
      [] c.t = "str"  -> IF c.s \in DOMAIN IntTable THEN IntCell(IntTable[c.s])
                         ELSE IF c.s \in DOMAIN FltTable
                              THEN FltCell(FltTable[c.s])
                              ELSE NaN
      [] OTHER        -> NaN

bins   == <<17, 24, 34, 44, 54, 64, 120>>
labels == <<"18-24", "25-34", "35-44", "45-54", "55-64", "65+">>

\* a bin closed on the left instead of on the right
InBinLeftClosed(c, k) == 2 * bins[k] <= Twice(c) /\ Twice(c) < 2 * bins[k + 1]

\* pd.cut(right=True): bin k is (bins[k], bins[k+1]]
InBin(c, k) == 2 * bins[k] < Twice(c) /\ Twice(c) <= 2 * bins[k + 1]

cut(c) ==
    IF IsNum(c) /\ \E k \in DOMAIN labels : InBin(c, k)
    THEN StrCell(labels[CHOOSE k \in DOMAIN labels : InBin(c, k)])
    ELSE NaN

code_to_label == [k \in DOMAIN labels |-> labels[k]]

\* Series.map(dict) with integer keys only
MapIntKeys(m, c) ==
    IF IsNum(c) /\ \E k \in DOMAIN m : Twice(c) = 2 * k
    THEN StrCell(m[CHOOSE k \in DOMAIN m : Twice(c) = 2 * k])
    ELSE NaN

AgeGrouped(frame) ==
    LET rows == RowsOf(frame)
    IN  IF "Age" \in DOMAIN frame
        THEN LET num == [i \in rows |-> to_numeric(frame["Age"][i])]
             IN  ("Age_numeric" :> num)
                 @@ ("Age_group" :> [i \in rows |-> cut(num[i])]) @@ frame
        ELSE IF "Age_Category_Code" \in DOMAIN frame
        THEN ("Age_group" :>
                 [i \in rows |->
                     Fillna(MapIntKeys(code_to_label, frame["Age_Category_Code"][i]),
                            frame["Age_Category_Code"][i])]) @@ frame
        ELSE frame

\* Age_group is a pandas Categorical exactly when pd.cut made it
IsCategorical(frame, col) == col = "Age_group" /\ "Age" \in DOMAIN frame

-----------------------------------------------------------------------------
(* analysis.py, section 4: summarize.                                      *)

RECURSIVE SumOver(_, _)
SumOver(frame, S) ==
    IF S = {} THEN 0
    ELSE LET i == CHOOSE j \in S : TRUE
         IN  frame["literacy_score"][i].n + SumOver(frame, S \ {i})

GroupKey(frame, cols, i) == [g \in DOMAIN cols |-> frame[cols[g]][i]]

\* rows that groupby keeps although a group key is missing
RowsKeptWithNaN(frame, cols) == RowsOf(frame)

\* groupby(dropna=True): rows with a missing group key are left out
RowsGrouped(frame, cols) ==
    {i \in RowsOf(frame) : \A g \in DOMAIN cols : frame[cols[g]][i].t # "nan"}

\* the groups of the result.  observed is groupby's default for categorical
\* keys, which the installed pandas decides (False before 3.0, True since):
\* with observed = False every category is a group, also an empty one.
GroupIndex(frame, cols, observed) ==
    LET seen == {GroupKey(frame, cols, i) : i \in RowsGrouped(frame, cols)}
        level(g) ==
            IF IsCategorical(frame, cols[g])
            THEN {StrCell(labels[k]) : k \in DOMAIN labels}
            ELSE {frame[cols[g]][i] : i \in RowsOf(frame)} \ {NaN}
    IN  IF observed \/ \A g \in DOMAIN cols : ~IsCategorical(frame, cols[g])
        THEN seen
        ELSE {k \in [DOMAIN cols -> UNION {level(g) : g \in DOMAIN cols}] :
                 \A g \in DOMAIN cols : k[g] \in level(g)}

\* agg(["count", "mean", "std"]): n and the sum, from which mean = sum / n
\* (NaN when n = 0); std and se are not modelled
summarize(frame, cols, observed) ==
    [k \in GroupIndex(frame, cols, observed) |->
        LET members == {i \in RowsGrouped(frame, cols) :
                           GroupKey(frame, cols, i) = k}
        IN  [n |-> Cardinality(members), sum |-> SumOver(frame, members)]]

-----------------------------------------------------------------------------
(* analysis.py, plots 4 and 5: the region and division tables.             *)

_region_labels ==
    (1 :> "Northeast") @@ (2 :> "Midwest") @@ (3 :> "South") @@ (4 :> "West")

_division_labels ==
    (1 :> "New England") @@ (2 :> "Middle Atlantic") @@ (3 :> "East North Central")
    @@ (4 :> "West North Central") @@ (5 :> "South Atlantic")
    @@ (6 :> "East South Central") @@ (7 :> "West South Central")
    @@ (8 :> "Mountain") @@ (9 :> "Pacific")

\* the labels the two tables can hold in the model, in Python's string order
LabelOrder ==
    <<"0", "0.0", "1", "10", "10.0", "2", "4", "7", "7.0",
      "East North Central", "East South Central", "Middle Atlantic", "Midwest",
      "Mountain", "New England", "Northeast", "Pacific", "South",
      "South Atlantic", "West", "West North Central", "West South Central", "x">>

LabelRank(a) == CHOOSE k \in DOMAIN LabelOrder : LabelOrder[k] = a

LabelBefore(a, b) == LabelRank(a) < LabelRank(b)

GeoRows(frame, col, names, observed) ==
    LET g == summarize(frame, <<col>>, observed)
    IN  {[code  |-> k[1],
          order |-> to_numeric(k[1]),
          label |-> Fillna(MapIntKeys(names, k[1]), StrCell(CsvText(k[1]))).s,
          n     |-> g[k].n,
          sum   |-> g[k].sum] : k \in DOMAIN g}

\* rows ordered by label alone
RowBeforeByLabel(a, b) == LabelBefore(a.label, b.label)

\* sort_values(by=["_order", label], na_position="last")
RowBefore(a, b) ==
    \/ IsNum(a.order) /\ ~IsNum(b.order)
    \/ IsNum(a.order) /\ IsNum(b.order) /\ Twice(a.order) < Twice(b.order)
    \/ /\ \/ ~IsNum(a.order) /\ ~IsNum(b.order)
          \/ IsNum(a.order) /\ IsNum(b.order) /\ Twice(a.order) = Twice(b.order)
       /\ LabelBefore(a.label, b.label)

SortedRows(S) ==
    CHOOSE sq \in [1..Cardinality(S) -> S] :
        /\ \A r \in S : \E i \in DOMAIN sq : sq[i] = r
        /\ \A i, j \in DOMAIN sq : i < j => ~RowBefore(sq[j], sq[i])

geo_tbl(frame, col, names, observed) ==
    SortedRows(GeoRows(frame, col, names, observed))

-----------------------------------------------------------------------------
(* The raw files of the model.                                             *)

RowsUpTo(texts) == UNION {[1..n -> texts] : n \in 1..MaxRows}

\* one survey column at a time, to exercise every map of the registry
ProbeColumns ==
    DOMAIN COLUMN_MAPS
    \cup {"B20_1", "B22_1", "K_1", "D20_1", "F2_1", "G25_1", "M21_1", "M1_1"}
    \cup {"E5", "A3a", "STATEQ", "A5_2012", " G23 ", "M 4"}

ProbeTexts(c) ==
    CASE c = "E5"  -> {"50", "-98", "-99", ""}
      [] c = "A3a" -> {"30", "999", ""}
      [] OTHER     -> {"1", "2", "98", "99", "0", " "}

ProbeFiles ==
    UNION {{(c :> col) : col \in RowsUpTo(ProbeTexts(c))} : c \in ProbeColumns}

\* a respondent who answers every literacy question correctly
BaseRow ==
    [M6 |-> "1", M7 |-> "1", M8 |-> "2", M9 |-> "1", M10 |-> "2",
     A3 |-> "1", A3a |-> "30", CENSUSREG |-> "1", CENSUSDIV |-> "1"]

\* the file of a sequence of respondents, without the columns in `absent`
FileOf(rows, absent) ==
    [c \in DOMAIN rows[1] \ absent |-> [i \in DOMAIN rows |-> rows[i][c]]]

\* sequences of 1..MaxRows respondents: the first from `wide`, the others
\* from `narrow`
Respondents(wide, narrow) ==
    {<<w>> \o rest :
        w \in wide, rest \in UNION {[1..n -> narrow] : n \in 0..(MaxRows - 1)}}

LiteracyWide ==
    {[BaseRow EXCEPT !.M6 = a, !.M7 = b, !.M8 = c, !.M9 = d, !.M10 = e] :
        a \in {"1", "2", "98"}, b \in {"1", "3"}, c \in {"2", "1", ""},
        d \in {"1", "2", "98"}, e \in {"2", "1", "99"}}

LiteracyNarrow ==
    {BaseRow,
     [BaseRow EXCEPT !.M6 = "98", !.M7 = "98", !.M8 = "98", !.M9 = "98", !.M10 = "98"],
     [BaseRow EXCEPT !.M6 = "", !.M7 = "", !.M8 = "", !.M9 = "", !.M10 = ""]}

LiteracyFiles ==
    {FileOf(sq, {}) : sq \in Respondents(LiteracyWide, LiteracyNarrow)}

AgeTexts ==
    {"17", "17.5", "18", "24", "25", "34", "35", "44", "45", "54", "55",
     "64", "65", "120", "121", "999", ""}

AgeWide ==
    {[BaseRow EXCEPT !.A3a = a, !.A3 = g, !.M6 = m] :
        a \in AgeTexts, g \in {"1", "2", ""}, m \in {"1", "2"}}

AgeNarrow ==
    {[BaseRow EXCEPT !.A3a = a, !.A3 = g] :
        a \in {"70", "999"}, g \in {"1", "2"}}

AgeFiles == {FileOf(sq, {}) : sq \in Respondents(AgeWide, AgeNarrow)}

\* files whose age is the ordinal code A3Ar_w, or that have no age at all
AgeCodeFiles ==
    {("A3Ar_w" :> col) @@ FileOf([i \in DOMAIN col |-> BaseRow], {"A3a"}) :
        col \in RowsUpTo({"1", "6", "7", ""})}
    \cup {FileOf(<<BaseRow>>, {"A3a"})}

GeoWide ==
    {[BaseRow EXCEPT !.CENSUSREG = r, !.CENSUSDIV = d, !.M6 = m] :
        r \in {"0", "1", "4", "7", "x", "South", ""}, d \in {"1", "9", "10"},
        m \in {"1", "2"}}

GeoNarrow ==
    {[BaseRow EXCEPT !.CENSUSREG = r, !.CENSUSDIV = d] :
        r \in {"0", "1", "2", "x"}, d \in {"2"}}

GeoFiles ==
    {FileOf(sq, absent) :
        sq \in Respondents(GeoWide, GeoNarrow),
        absent \in {{}, {"CENSUSREG"}, {"CENSUSDIV"}, {"CENSUSREG", "CENSUSDIV"}}}

RawFiles == ProbeFiles \cup LiteracyFiles \cup AgeFiles \cup AgeCodeFiles \cup GeoFiles

-----------------------------------------------------------------------------
(* clean_data.py as a sequence of steps.                                   *)

NoTable == [k \in {} |-> 0]

Init ==
    /\ pc = "read"
    /\ run = 1
    /\ srcCsv \in RawFiles
    /\ df = read_csv(srcCsv)                                  \* line 11
    /\ mapped = NoFrame
    /\ outCsv = NoFrame
    /\ firstCsv = NoFrame
    /\ adf = NoFrame
    /\ tables = [age |-> NoTable, gender |-> NoTable, age_gender |-> NoTable,
                 region |-> <<>>, division |-> <<>>]
    /\ emitted = {}

Normalize ==
    /\ pc = "read"
    /\ df' = Normalized(df)
    /\ pc' = "normalized"
    /\ UNCHANGED <<run, srcCsv, mapped, outCsv, firstCsv, adf, tables, emitted>>

ApplyColumnMaps ==
    /\ pc = "normalized"
    /\ df' = ColumnMapsApplied(df)
    /\ pc' = "column_maps"
    /\ UNCHANGED <<run, srcCsv, mapped, outCsv, firstCsv, adf, tables, emitted>>

ApplyPrefixMaps ==
    /\ pc = "column_maps"
    /\ df' = PrefixMapsApplied(df)
    /\ pc' = "prefix_maps"
    /\ UNCHANGED <<run, srcCsv, mapped, outCsv, firstCsv, adf, tables, emitted>>

SpecialCases ==
    /\ pc = "prefix_maps"
    /\ df' = SpecialCasesApplied(df)
    /\ mapped' = df'
    /\ pc' = "mapped"
    /\ UNCHANGED <<run, srcCsv, outCsv, firstCsv, adf, tables, emitted>>

DropEmptyColumns ==
    /\ pc = "mapped"
    /\ df' = dropna_columns(df)
    /\ pc' = "pruned"
    /\ UNCHANGED <<run, srcCsv, mapped, outCsv, firstCsv, adf, tables, emitted>>

RenameAndSave ==
    /\ pc = "pruned"
    /\ df' = Rename(df, [c \in DOMAIN df |-> friendly_names(c)])
    /\ outCsv' = to_csv(df')
    /\ firstCsv' = IF run = 1 THEN outCsv' ELSE firstCsv
    /\ pc' = "saved"
    /\ UNCHANGED <<run, srcCsv, mapped, adf, tables, emitted>>

\* clean_data.py executed again with SRC_CSV pointed at the file it wrote;
\* pd.read_csv raises EmptyDataError on a file without columns
RunAgain ==
    /\ pc = "saved"
    /\ run = 1
    /\ run' = 2
    /\ srcCsv' = outCsv
    /\ IF DOMAIN outCsv = {}
       THEN pc' = "crashed" /\ df' = df
       ELSE pc' = "read" /\ df' = read_csv(outCsv)
    /\ UNCHANGED <<mapped, outCsv, firstCsv, adf, tables, emitted>>

-----------------------------------------------------------------------------
(* analysis.py as a sequence of steps.  An exception ends the script:      *)
(* pc = "crashed".                                                         *)

Load ==
    /\ pc = "saved"
    /\ IF DOMAIN outCsv = {}
       THEN pc' = "crashed" /\ adf' = adf
       ELSE pc' = "loaded" /\ adf' = read_csv(outCsv)
    /\ UNCHANGED <<run, srcCsv, df, mapped, outCsv, firstCsv, tables, emitted>>

\* df[col] raises KeyError when a literacy column is absent
Score ==
    /\ pc = "loaded"
    /\ IF \A k \in DOMAIN LITERACY_COLS : LITERACY_COLS[k] \in DOMAIN adf
       THEN pc' = "scored" /\ adf' = Scored(adf)
       ELSE pc' = "crashed" /\ adf' = adf
    /\ UNCHANGED <<run, srcCsv, df, mapped, outCsv, firstCsv, tables, emitted>>

AgeGroups ==
    /\ pc = "scored"
    /\ adf' = AgeGrouped(adf)
    /\ pc' = "age_grouped"
    /\ UNCHANGED <<run, srcCsv, df, mapped, outCsv, firstCsv, tables, emitted>>

\* df.groupby raises KeyError when a group column is absent
SummaryTables ==
    /\ pc = "age_grouped"
    /\ IF {"Age_group", "Gender"} \subseteq DOMAIN adf
       THEN /\ \E observed \in BOOLEAN :
                  tables' = [tables EXCEPT
                      !.age = summarize(adf, <<"Age_group">>, observed),
                      !.gender = summarize(adf, <<"Gender">>, observed),
                      !.age_gender = summarize(adf, <<"Age_group", "Gender">>, observed)]
            /\ pc' = "tables"
       ELSE pc' = "crashed" /\ tables' = tables
    /\ UNCHANGED <<run, srcCsv, df, mapped, outCsv, firstCsv, adf, emitted>>

DemographicPlots ==
    /\ pc = "tables"
    /\ emitted' = emitted \cup {"literacy_by_age.png", "literacy_by_gender.png",
                                "literacy_by_age_gender.png"}
    /\ pc' = "plots"
    /\ UNCHANGED <<run, srcCsv, df, mapped, outCsv, firstCsv, adf, tables>>

RegionReport ==
    /\ pc = "plots"
    /\ IF "Census_Region" \in DOMAIN adf
       THEN /\ \E observed \in BOOLEAN :
                  tables' = [tables EXCEPT !.region =
                      geo_tbl(adf, "Census_Region", _region_labels, observed)]
            /\ emitted' = emitted \cup {"literacy_by_region.png"}
       ELSE /\ tables' = tables
            /\ emitted' = emitted \cup {"Column 'Census_Region' not found in dataset."}
    /\ pc' = "region"
    /\ UNCHANGED <<run, srcCsv, df, mapped, outCsv, firstCsv, adf>>

DivisionReport ==
    /\ pc = "region"
    /\ IF "Census_Division" \in DOMAIN adf
       THEN /\ \E observed \in BOOLEAN :
                  tables' = [tables EXCEPT !.division =
                      geo_tbl(adf, "Census_Division", _division_labels, observed)]
            /\ emitted' = emitted \cup {"literacy_by_division.png"}
       ELSE /\ tables' = tables
            /\ emitted' = emitted \cup {"Column 'Census_Division' not found in dataset."}
    /\ pc' = "division"
    /\ UNCHANGED <<run, srcCsv, df, mapped, outCsv, firstCsv, adf>>

\* sns.boxplot raises ValueError when the x column is absent
RegionBoxplot ==
    /\ pc = "division"
    /\ IF "Census_Region" \in DOMAIN adf
       THEN pc' = "region_box" /\ emitted' = emitted \cup {"literacy_boxplot_region.png"}
       ELSE pc' = "crashed" /\ emitted' = emitted \cup {"ValueError: Census_Region"}
    /\ UNCHANGED <<run, srcCsv, df, mapped, outCsv, firstCsv, adf, tables>>

DivisionBoxplot ==
    /\ pc = "region_box"
    /\ IF "Census_Division" \in DOMAIN adf
       THEN pc' = "done" /\ emitted' = emitted \cup {"literacy_boxplot_division.png"}
       ELSE pc' = "crashed" /\ emitted' = emitted \cup {"ValueError: Census_Division"}
    /\ UNCHANGED <<run, srcCsv, df, mapped, outCsv, firstCsv, adf, tables>>

Next ==
    \/ Normalize
    \/ ApplyColumnMaps
    \/ ApplyPrefixMaps
    \/ SpecialCases
    \/ DropEmptyColumns
    \/ RenameAndSave
    \/ RunAgain
    \/ Load
    \/ Score
    \/ AgeGroups
    \/ SummaryTables
    \/ DemographicPlots
    \/ RegionReport
    \/ DivisionReport
    \/ RegionBoxplot
    \/ DivisionBoxplot

Spec == Init /\ [][Next]_vars

-----------------------------------------------------------------------------
(* Properties of the Aggregator's literacy score.                          *)

Respondent == IF DOMAIN adf = {} THEN {} ELSE RowsOf(adf)

IsCorrect(i, k) ==
    adf[LITERACY_COLS[k]][i] = StrCell(correct_answers[LITERACY_COLS[k]])

CorrectCount(i) == Cardinality({k \in DOMAIN LITERACY_COLS : IsCorrect(i, k)})

\* respondents i and j gave the same five answers, except that i answered
\* question k correctly and j answered it "Don't know"
DiffersByDontKnow(i, j, k) ==
    /\ IsCorrect(i, k)
    /\ adf[LITERACY_COLS[k]][j] = StrCell("Don't know")
    /\ \A q \in DOMAIN LITERACY_COLS \ {k} :
           adf[LITERACY_COLS[q]][i] = adf[LITERACY_COLS[q]][j]

RawLiteracyCols == <<"M6", "M7", "M8", "M9", "M10">>
CorrectCodes    == <<1, 1, 2, 1, 2>>

RawCorrectCount(i) ==
    Cardinality({k \in DOMAIN RawLiteracyCols :
                    srcCsv[RawLiteracyCols[k]][i] = IntText(CorrectCodes[k])})

\* C10: end to end, the literacy_score computed from the cleaned file equals
\* the number of the respondent's five raw codes (M6, M7, M8, M9, M10) that
\* are the correct code (1, 1, 2, 1, 2).
ScoreMatchesRawCodes ==
    (run = 1 /\ "literacy_score" \in DOMAIN adf) =>
        \A i \in Respondent : adf["literacy_score"][i].n = RawCorrectCount(i)

-----------------------------------------------------------------------------
(* Properties of the age groups.                                           *)

HasAgeGroups == {"Age", "Age_numeric", "Age_group"} \subseteq DOMAIN adf

\* the bucket of an age in (17, 120], given as twice the age
EdgeLabel(t) ==
    CASE t <= 48  -> "18-24"
      [] t > 48  /\ t <= 68  -> "25-34"
      [] t > 68  /\ t <= 88  -> "35-44"
      [] t > 88  /\ t <= 108 -> "45-54"
      [] t > 108 /\ t <= 128 -> "55-64"
      [] OTHER -> "65+"

\* C2, as stated: ages in [18, 120] are bucketed by the edges (17,24],
\* (24,34], (34,44], (44,54], (54,64], (64,120], and every age outside
\* [18, 120] and every non-numeric value gets a missing bucket.
AgeGroupMissingOutside18To120 ==
    HasAgeGroups =>
        \A i \in Respondent :
            LET a == adf["Age_numeric"][i]
            IN  IF IsNum(a) /\ Twice(a) >= 36 /\ Twice(a) <= 240
                THEN adf["Age_group"][i] = StrCell(EdgeLabel(Twice(a)))
                ELSE adf["Age_group"][i] = NaN

\* C2, amended: ages in (17, 120] are bucketed by the edges, a boundary age
\* falling in the lower bucket; every age at or below 17 or above 120 and
\* every non-numeric value gets a missing bucket.
AgeGroupFollowsEdges ==
    HasAgeGroups =>
        \A i \in Respondent :
            LET a == adf["Age_numeric"][i]
            IN  /\ a = to_numeric(adf["Age"][i])
                /\ IF IsNum(a) /\ Twice(a) > 34 /\ Twice(a) <= 240
                   THEN adf["Age_group"][i] = StrCell(EdgeLabel(Twice(a)))
                   ELSE adf["Age_group"][i] = NaN

\* C2 witness: a respondent aged 24 in "18-24" beside one whose age was
\* recoded to "Prefer not to say" and has no bucket
AgeGroupWitness ==
    /\ HasAgeGroups
    /\ \E i, j \in Respondent :
           /\ IsNum(adf["Age_numeric"][i]) /\ Twice(adf["Age_numeric"][i]) = 48
           /\ adf["Age_group"][i] = StrCell("18-24")
           /\ adf["Age"][j] = StrCell("Prefer not to say")
           /\ adf["Age_group"][j] = NaN

-----------------------------------------------------------------------------
(* Properties of the Recoder's mapping steps.                              *)

IsCode(c, k) == c \in {IntCell(k), FltCell(2 * k), StrCell(IntText(k))}

ByPrefix(c) == \E k \in DOMAIN PREFIX_MAPS : StartsWith(c, PREFIX_MAPS[k][1])

Governed(c) == c \in DOMAIN COLUMN_MAPS \/ ByPrefix(c)

GoverningMap(c) ==
    IF c \in DOMAIN COLUMN_MAPS THEN COLUMN_MAPS[c]
    ELSE PREFIX_MAPS[CHOOSE k \in DOMAIN PREFIX_MAPS :
                         StartsWith(c, PREFIX_MAPS[k][1])][2]

\* the frame the mapping steps of this execution started from
BeforeMapping == Normalized(read_csv(srcCsv))

Sentinels == {StrCell("Don't know"), StrCell("Prefer not to say")}

\* the cells the sentinel invariant speaks of
IsSentinelCode(c, cell) ==
    \/ Governed(c) /\ (IsCode(cell, 98) \/ IsCode(cell, 99))
    \/ c = "E5" /\ (IsCode(cell, -98) \/ IsCode(cell, -99))
    \/ c = "A3a" /\ IsCode(cell, 999)

\* C3, as stated: after the mapping steps, every raw 98 or 99 of a governed
\* column (and -98/-99 of E5, 999 of A3a) is "Don't know" or "Prefer not to
\* say".
SentinelAlwaysRecoded ==
    pc = "mapped" =>
        \A c \in DOMAIN mapped : \A i \in DOMAIN mapped[c] :
            IsSentinelCode(c, BeforeMapping[c][i]) => mapped[c][i] \in Sentinels

\* the governed columns whose map declares no 98, and no 99
No98 == {"A3", "A5", "A6", "A7", "A11", "AM21", "AM22", "A9"}
No99 == {"A3"}

\* C3, amended: a raw 98 or 99 of a governed column is recoded to "Don't
\* know" or "Prefer not to say" where the column's map declares the code, and
\* is left as it was where the map does not (98 in A3, A5, A6, A7, A11, AM21,
\* AM22, A9; 99 in A3); it is never recoded to a substantive label.  -98/-99
\* of E5 and 999 of A3a are always recoded to a sentinel label.
SentinelRecodedWhereDeclared ==
    pc = "mapped" =>
        \A c \in DOMAIN mapped : \A i \in DOMAIN mapped[c] :
            LET raw == BeforeMapping[c][i]
            IN  IsSentinelCode(c, raw) =>
                    IF \/ c \in No98 /\ IsCode(raw, 98)
                       \/ c \in No99 /\ IsCode(raw, 99)
                    THEN mapped[c][i] = raw
                    ELSE mapped[c][i] \in Sentinels

\* C3 witness: a governed column in which a raw 98 was left as it was and a
\* raw 99 became "Prefer not to say"
SentinelWitness ==
    /\ pc = "mapped"
    /\ \E c \in DOMAIN mapped : \E i, j \in DOMAIN mapped[c] :
           /\ Governed(c)
           /\ IsCode(BeforeMapping[c][i], 98) /\ mapped[c][i] = BeforeMapping[c][i]
           /\ IsCode(BeforeMapping[c][j], 99)
           /\ mapped[c][j] = StrCell("Prefer not to say")

\* the two steps that call apply_map_safe, and the columns each one maps
MapsColumn(c) ==
    \/ pc = "normalized" /\ c \in DOMAIN COLUMN_MAPS
    \/ pc = "column_maps" /\ ByPrefix(c)

\* what a step that applies the code maps does to each cell
MapStepCellwise ==
    pc \in {"normalized", "column_maps"} =>
        \A c \in DOMAIN df : \A i \in DOMAIN df[c] :
            IF MapsColumn(c) /\ \E k \in DOMAIN GoverningMap(c) : IsCode(df[c][i], k)
            THEN \E k \in DOMAIN GoverningMap(c) :
                     /\ IsCode(df[c][i], k)
                     /\ df'[c][i] = StrCell(GoverningMap(c)[k])
            ELSE df'[c][i] = df[c][i]

\* C4: in a step that applies the code maps, a cell of a governed column
\* that has an entry in the governing map (as a number or as the number's
\* text) becomes that entry's label, and every other cell, NaN or not, is
\* left exactly as it was.
UnmappedPassThrough == [][MapStepCellwise]_vars

\* C4 witness: a governed column in which code 0, which no map declares,
\* came through unchanged beside a cell that was replaced by its label
PassThroughWitness ==
    /\ pc = "mapped"
    /\ \E c \in DOMAIN mapped : \E i, j \in DOMAIN mapped[c] :
           /\ Governed(c)
           /\ IsCode(BeforeMapping[c][i], 0) /\ mapped[c][i] = BeforeMapping[c][i]
           /\ IsCode(BeforeMapping[c][j], 1)
           /\ mapped[c][j] = StrCell(GoverningMap(c)[1])

LabelsOf(m) == {m[k] : k \in DOMAIN m}

\* the cells of the first execution's file that hold a label of the map
\* governing their column (d is the column's friendly name)
IsLabelCell(d, i) ==
    \E c \in ProbeColumns :
        /\ Governed(c)
        /\ friendly_names(c) = d
        /\ firstCsv[d][i] \in LabelsOf(GoverningMap(c))

\* C5: clean_data.py executed on the file it wrote leaves every label cell
\* as it was: the second execution's file holds each label cell of the
\* first one's, unchanged.
RecodingTwiceKeepsLabels ==
    (run = 2 /\ pc = "saved") =>
        \A d \in DOMAIN firstCsv : \A i \in DOMAIN firstCsv[d] :
            IsLabelCell(d, i) =>
                d \in DOMAIN outCsv /\ outCsv[d][i] = firstCsv[d][i]

\* C8: the file clean_data.py writes has no column whose cells are all
\* empty, and keeps every column of the mapped frame that has a non-empty
\* cell.
NoEmptyColumnPersisted ==
    pc = "saved" =>
        /\ \A c \in DOMAIN outCsv : \E i \in DOMAIN outCsv[c] : outCsv[c][i] # ""
        /\ \A c \in DOMAIN mapped :
               (\E i \in DOMAIN mapped[c] : CsvText(mapped[c][i]) # "")
                   => friendly_names(c) \in DOMAIN outCsv

-----------------------------------------------------------------------------
(* Properties of the Aggregator's report.                                  *)

\* C6: a region or division column absent from the cleaned dataset never
\* aborts the run: no step of the report ends in an exception over it.
AbsentGroupingNeverAborts ==
    \A col \in {"Census_Region", "Census_Division"} :
        (pc = "crashed" /\ DOMAIN adf # {} /\ col \notin DOMAIN adf)
            => ("ValueError: " \o col) \notin emitted

RECURSIVE TotalN(_)
TotalN(tbl) ==
    IF DOMAIN tbl = {} THEN 0
    ELSE LET k == CHOOSE x \in DOMAIN tbl : TRUE
         IN  tbl[k].n + TotalN([x \in DOMAIN tbl \ {k} |-> tbl[x]])

RowsOfTable(tbl) == {tbl[k] : k \in DOMAIN tbl}

\* respondents whose group keys are all present
WithKeys(cols) ==
    Cardinality({i \in Respondent : \A g \in DOMAIN cols : adf[cols[g]][i] # NaN})

DemographicTablesMade ==
    \/ pc \in {"tables", "plots", "region", "division", "region_box", "done"}
    \/ "literacy_by_age.png" \in emitted

RegionTableMade   == "literacy_by_region.png" \in emitted
DivisionTableMade == "literacy_by_division.png" \in emitted

CountsAddUp(tbl, cols) == TotalN(tbl) = WithKeys(cols)

MeansIn0To5(tbl) ==
    \A r \in RowsOfTable(tbl) : r.n > 0 /\ 0 <= r.sum /\ r.sum <= 5 * r.n

MeansIn0To5WhereDefined(tbl) ==
    \A r \in RowsOfTable(tbl) : r.n >= 0 /\ (r.n > 0 => 0 <= r.sum /\ r.sum <= 5 * r.n)

\* C7, as stated: in every summary the counts n add up to the number of
\* respondents whose group keys are all present, and every row has a mean
\* in [0, 5] (the mean of a row is sum / n, and NaN when n = 0).
EverySummaryRowHasMeanIn0To5 ==
    /\ DemographicTablesMade =>
           /\ CountsAddUp(tables.age, <<"Age_group">>)
           /\ CountsAddUp(tables.gender, <<"Gender">>)
           /\ CountsAddUp(tables.age_gender, <<"Age_group", "Gender">>)
           /\ MeansIn0To5(tables.age)
           /\ MeansIn0To5(tables.gender)
           /\ MeansIn0To5(tables.age_gender)
    /\ RegionTableMade =>
           /\ CountsAddUp(tables.region, <<"Census_Region">>)
           /\ MeansIn0To5(tables.region)
    /\ DivisionTableMade =>
           /\ CountsAddUp(tables.division, <<"Census_Division">>)
           /\ MeansIn0To5(tables.division)

\* C7, amended: in every summary the counts n add up to the number of
\* respondents whose group keys are all present, and every row with n >= 1
\* has a mean in [0, 5]; a row with n = 0 (an age bucket no respondent falls
\* in) has no mean.
SummaryCountsAndMeans ==
    /\ DemographicTablesMade =>
           /\ CountsAddUp(tables.age, <<"Age_group">>)
           /\ CountsAddUp(tables.gender, <<"Gender">>)
           /\ CountsAddUp(tables.age_gender, <<"Age_group", "Gender">>)
           /\ MeansIn0To5WhereDefined(tables.age)
           /\ MeansIn0To5WhereDefined(tables.gender)
           /\ MeansIn0To5WhereDefined(tables.age_gender)
    /\ RegionTableMade =>
           /\ CountsAddUp(tables.region, <<"Census_Region">>)
           /\ MeansIn0To5WhereDefined(tables.region)
    /\ DivisionTableMade =>
           /\ CountsAddUp(tables.division, <<"Census_Division">>)
           /\ MeansIn0To5WhereDefined(tables.division)

\* C7 witness: summaries by age and gender of two respondents, one of whom
\* has no age bucket, with a group of one respondent
SummaryWitness ==
    /\ pc = "tables"
    /\ \E i \in Respondent : adf["Age_group"][i] = NaN
    /\ \E r \in RowsOfTable(tables.age_gender) : r.n = 1
    /\ \E r \in RowsOfTable(tables.gender) : r.n = 2

IsMapped(r, names) ==
    \E k \in DOMAIN names : r.code \in {IntCell(k), FltCell(2 * k)}

\* the table ascends by numeric code
AscendsByCode(tbl) ==
    \A i, j \in DOMAIN tbl :
        (i < j /\ IsNum(to_numeric(tbl[i].code)) /\ IsNum(to_numeric(tbl[j].code)))
            => Twice(to_numeric(tbl[i].code)) < Twice(to_numeric(tbl[j].code))

UnnamedLast(tbl, names) ==
    \A i, j \in DOMAIN tbl :
        i < j => ~(~IsMapped(tbl[i], names) /\ IsMapped(tbl[j], names))

NonNumericLast(tbl) ==
    \A i, j \in DOMAIN tbl :
        i < j => ~(~IsNum(to_numeric(tbl[i].code)) /\ IsNum(to_numeric(tbl[j].code)))

\* C9, as stated: the rows of the region and division tables ascend by
\* numeric code, and every row whose code is not in the name table comes
\* after all rows whose code is.
UnmappedCodesSortLast ==
    /\ RegionTableMade =>
           AscendsByCode(tables.region) /\ UnnamedLast(tables.region, _region_labels)
    /\ DivisionTableMade =>
           /\ AscendsByCode(tables.division)
           /\ UnnamedLast(tables.division, _division_labels)

\* C9, amended: the rows of the region and division tables ascend by
\* numeric code, not by label, and every row whose code is not a number
\* comes after all rows whose code is one; a numeric code that is not in
\* the name table is placed by its value, before the named rows when it is
\* smaller.
GeoRowsAscendByCode ==
    /\ RegionTableMade =>
           AscendsByCode(tables.region) /\ NonNumericLast(tables.region)
    /\ DivisionTableMade =>
           AscendsByCode(tables.division) /\ NonNumericLast(tables.division)

\* C9 witness: a region table whose first row is the unnamed code 0 and
\* whose second is Northeast, beside a division table that lists New England
\* before Middle Atlantic
GeoOrderWitness ==
    /\ "literacy_by_region.png" \in emitted
    /\ "literacy_by_division.png" \in emitted
    /\ Len(tables.region) = 2
    /\ tables.region[1].label = "0" /\ tables.region[2].label = "Northeast"
    /\ Len(tables.division) = 2
    /\ tables.division[1].label = "New England"
    /\ tables.division[2].label = "Middle Atlantic"

=============================================================================
